---- MODULE Spec2Model ----
(***************************************************************************)
(* Model of run/run_pre_processing.py: pre_process, the per-timestamp,     *)
(* per-sub-domain assembly of normalized input/label vectors and the       *)
(* batched writer that hands them to collection_pre.insert_many.           *)
(*                                                                         *)
(* Numbers.  Timestamps are hour indices.  A scalar of an input vector is  *)
(* a pair <<num, rad>> standing for num / sqrt(rad): with n values of sum  *)
(* s and sum of squares q, (v - mean) / std = (n*v - s) / sqrt(n*q - s*s), *)
(* so normalize is computed exactly.  rad = 0 is what numpy's division by  *)
(* a zero (or nan) std yields: <<1,0>> is inf, <<-1,0>> is -inf, <<0,0>>   *)
(* is nan.  The literal 0 of the code is <<0,1>>.  Labels are integers.    *)
(***************************************************************************)
EXTENDS Integers, Sequences, FiniteSets, TLC

VARIABLES
    date_start, date_end,           \* arguments of pre_process
    mesh,                           \* sequence of sub-domains, in mesh.items() order
    weather_data,                   \* timestamp -> 4-vector
    background_pollution,           \* timestamp -> (pollutant -> value), sparse
    traffic_volumes,                \* timestamp -> (sorted link -> volume)
    caline_estimates,               \* timestamp -> (coord -> (pollutant -> value))
    max_collection_size,            \* the flush threshold
    pc,                             \* "start", "while", "for", "done", "raised"
    date_current,
    sub_domain_pos,                 \* position of the for loop in mesh.items()
    current_background_pollution,
    collection_of_pre_processed_entries,
    inserted,                       \* the batches passed to collection_pre.insert_many
    assembled                       \* history: the records in the order they were assembled

vars == <<date_start, date_end, mesh, weather_data, background_pollution,
          traffic_volumes, caline_estimates, max_collection_size, pc,
          date_current, sub_domain_pos, current_background_pollution,
          collection_of_pre_processed_entries, inserted, assembled>>

inputs == <<date_start, date_end, mesh, weather_data, background_pollution,
            traffic_volumes, caline_estimates, max_collection_size>>

----------------------------------------------------------------------------
(* Bounds of the model *)

MaxHour == 1
MaxThreshold == 3

Hours == 0..MaxHour

----------------------------------------------------------------------------
(* Program constants *)

MaxLinks == 20
ScalarsPerLink == 5
time_step == 1

Pollutant == <<"NO2", "PM10", "PM25">>

get_empirical_background_pollution == ("NO2" :> 2) @@ ("PM10" :> 1) @@ ("PM25" :> 1)

----------------------------------------------------------------------------
(* Sequences and numbers *)

RECURSIVE SumSeq(_)
SumSeq(s) == IF s = <<>> THEN 0 ELSE Head(s) + SumSeq(Tail(s))

RECURSIVE SumSqSeq(_)
SumSqSeq(s) == IF s = <<>> THEN 0 ELSE Head(s) * Head(s) + SumSqSeq(Tail(s))

RECURSIVE Flatten(_)
Flatten(ss) == IF ss = <<>> THEN <<>> ELSE Head(ss) \o Flatten(Tail(ss))

RECURSIVE SetToSeq(_)
SetToSeq(S) == IF S = {} THEN <<>>
               ELSE LET x == CHOOSE y \in S : TRUE IN <<x>> \o SetToSeq(S \ {x})

Sign(x) == IF x > 0 THEN 1 ELSE IF x < 0 THEN -1 ELSE 0

Zeros(n) == [i \in 1..n |-> <<0, 1>>]

----------------------------------------------------------------------------
(* The collaborators' data: utilities, the receptor list, the meshes *)

\* utilities['bounding_box']: the corner coordinates of the whole domain
bounding_box == <<<<0, 0>>, <<0, 4>>, <<4, 4>>, <<4, 0>>>>

\* utilities['links_in_area']: link (endpoints as stored, not sorted) -> <<start, end>>
links_in_area == (<<2, 1>> :> <<<<0, 1>>, <<2, 3>>>>) @@ (<<3, 4>> :> <<<<1, 0>>, <<3, 4>>>>)

\* the receptors of the caline estimates, in the order the store returned them
receptor_list == <<<<3, 1>>, <<1, 3>>, <<1, 1>>>>

\* utilities['domain_dict'] restricted to the selection [6, 7]: the many-tile mesh
domain_dict ==
    << [id |-> 6, coord |-> <<<<0, 0>>, <<0, 4>>, <<2, 4>>, <<2, 0>>>>,
        links |-> <<<<2, 1>>, <<3, 4>>>>],
       [id |-> 7, coord |-> <<<<3, 3>>, <<3, 4>>, <<4, 4>>, <<4, 3>>>>,
        links |-> <<>>] >>

\* one-tile mesh: {1: {'coord': bounding_box, 'links': traffic_links}}
one_tile_mesh ==
    << [id |-> 1, coord |-> bounding_box,
        links |-> Flatten([i \in 1..Len(domain_dict) |-> domain_dict[i].links])] >>

Meshes == {domain_dict, one_tile_mesh}

\* udd.is_point_in_area for the rectangular areas above (boundary included)
is_point_in_area(point, area) ==
    /\ \E c \in 1..Len(area) : area[c][1] <= point[1]
    /\ \E c \in 1..Len(area) : area[c][1] >= point[1]
    /\ \E c \in 1..Len(area) : area[c][2] <= point[2]
    /\ \E c \in 1..Len(area) : area[c][2] >= point[2]

\* the entries the sources hold for hour h, when they hold one
WeatherAt(h) == <<10 + h, 2 + h * h, 1 + (h % 2), 15 - h>>

TrafficAt(h) ==
    CASE h % 3 = 0 -> (<<1, 2>> :> 4)
      [] h % 3 = 1 -> (<<1, 2>> :> 0) @@ (<<3, 4>> :> 2)
      [] OTHER     -> (<<3, 4>> :> 6)

CalineAt(h) ==
    CASE h % 3 = 0 -> (<<1, 1>> :> (("NO2" :> 5) @@ ("PM10" :> 0)))
      [] h % 3 = 1 -> (<<1, 1>> :> (("NO2" :> 1) @@ ("PM10" :> 7) @@ ("PM25" :> 0)))
                      @@ (<<3, 1>> :> ("NO2" :> 4))
      [] OTHER     -> (<<1, 3>> :> (("PM10" :> 6) @@ ("PM25" :> 3)))
                      @@ (<<1, 1>> :> ("NO2" :> 6))

BackgroundAt(h) ==
    CASE h % 3 = 0 -> ("NO2" :> 4)
      [] h % 3 = 1 -> ("PM10" :> 9) @@ ("PM25" :> 0)
      [] OTHER     -> ("NO2" :> 0) @@ ("PM25" :> 5)

\* the sources queried by time range, S the hours that have an entry
WeatherSeries(S) == [h \in S |-> WeatherAt(h)]

BackgroundSeries(S) == [h \in S |-> BackgroundAt(h)]

TrafficSeries(S) == [h \in S |-> TrafficAt(h)]

CalineSeries(S) == [h \in S |-> CalineAt(h)]

----------------------------------------------------------------------------
(* Normalization: lines 115-148 *)

\* np.mean and np.std of a list of values, kept as (n, sum, sum of squares)
Stats(values) == [n |-> Len(values), sum |-> SumSeq(values), sumsq |-> SumSqSeq(values)]

\* n^2 * variance; zero exactly when np.std is zero (or, with n = 0, nan)
Radicand(st) == st.n * st.sumsq - st.sum * st.sum

\* (val - mean) / std
normalize(val, st) ==
    LET num == st.n * val - st.sum
        rad == Radicand(st)
    IN  IF rad = 0 THEN <<Sign(num), 0>> ELSE <<num, rad>>

time_stats == Stats(<<date_start, date_end>>)

\* np.transpose(list(weather_data.values())), then mean and std along axis 1
weather_stats ==
    LET hs == SetToSeq(DOMAIN weather_data)
    IN  [d \in 1..4 |-> Stats([i \in 1..Len(hs) |-> weather_data[hs[i]][d]])]

\* [volume for series in traffic_volumes.values() for volume in series.values()]
volumes ==
    LET hs == SetToSeq(DOMAIN traffic_volumes)
        OfSeries(series) == LET ls == SetToSeq(DOMAIN series)
                            IN  [i \in 1..Len(ls) |-> series[ls[i]]]
    IN  Flatten([i \in 1..Len(hs) |-> OfSeries(traffic_volumes[hs[i]])])

volumes_stats == Stats(volumes)

coord_stats == [d \in 1..2 |-> Stats([i \in 1..Len(bounding_box) |-> bounding_box[i][d]])]

normalize_time(timestamp) == <<normalize(timestamp, time_stats)>>

normalize_weather(weather_list) == [d \in 1..4 |-> normalize(weather_list[d], weather_stats[d])]

normalize_traffic(volume) == normalize(volume, volumes_stats)

normalize_coords(coords) == [d \in 1..2 |-> normalize(coords[d], coord_stats[d])]

----------------------------------------------------------------------------
(* Spatial assignment: lines 154-159 *)

CoordLeq(a, b) == a[1] < b[1] \/ (a[1] = b[1] /\ a[2] <= b[2])

\* list.sort(key=lambda x: (x[0], x[1])), a stable sort
RECURSIVE SortCoords(_)
SortCoords(s) ==
    IF s = <<>> THEN <<>>
    ELSE LET rest == SortCoords(Tail(s))
             before == SelectSeq(rest, LAMBDA c : ~CoordLeq(Head(s), c))
             after == SelectSeq(rest, LAMBDA c : CoordLeq(Head(s), c))
         IN  before \o <<Head(s)>> \o after

receptor_coords(sub_domain) ==
    SortCoords(SelectSeq(receptor_list, LAMBDA r : is_point_in_area(r, sub_domain.coord)))

----------------------------------------------------------------------------
(* Feature vector assembly: lines 190-232 *)

\* tuple(sorted(link)): the key of a link in traffic_volumes
SortedLink(link) == IF link[1] <= link[2] THEN link ELSE <<link[2], link[1]>>

\* lines 201-204: the volume scalar of a link at timestamp t
VolumeScalar(link, t) ==
    IF link \in DOMAIN traffic_volumes[t]
    THEN normalize_traffic(traffic_volumes[t][link])
    ELSE <<0, 1>>

\* lines 199-204: the five scalars of one link of the sub-domain
LinkGroup(link, t) ==
    normalize_coords(links_in_area[link][1])
        \o normalize_coords(links_in_area[link][2])
        \o <<VolumeScalar(SortedLink(link), t)>>

\* Padding with one zero per missing link instead of five
PaddingOnePerLink(k) ==
    LET count == MaxLinks - k
    IN  Zeros(IF count < 0 THEN 0 ELSE count)

\* line 206: [0] * ((20 - len(links)) * 5); a negative count gives the empty list
Padding(k) ==
    LET count == (MaxLinks - k) * ScalarsPerLink
    IN  Zeros(IF count < 0 THEN 0 ELSE count)

\* lines 191-206
current_traffic_volume(sub_domain, t) ==
    Flatten([i \in 1..Len(sub_domain.links) |-> LinkGroup(sub_domain.links[i], t)])
        \o Padding(Len(sub_domain.links))

\* lines 210-211
current_receptors(sub_domain) ==
    LET rc == receptor_coords(sub_domain)
    IN  Flatten([i \in 1..Len(rc) |-> normalize_coords(rc[i])])

\* lines 214-219
RawLabel(t, coord, poll, background) ==
    IF /\ coord \in DOMAIN caline_estimates[t]
       /\ poll \in DOMAIN caline_estimates[t][coord]
    THEN caline_estimates[t][coord][poll] - background[poll]
    ELSE 0

\* Clamp with the label held at -1 instead of reset to 0
ClampToMinusOne(value) == IF value < -1 THEN -1 ELSE value

\* line 220: value = 0 if value < -1 else value
Clamp(value) == IF value < -1 THEN 0 ELSE value

\* lines 209-221
current_estimates(sub_domain, t, background) ==
    LET rc == receptor_coords(sub_domain)
    IN  Flatten([i \in 1..Len(rc) |->
                    [j \in 1..Len(Pollutant) |->
                        Clamp(RawLabel(t, rc[i], Pollutant[j], background))]])

\* lines 223-232
Data(sub_domain, t, background) ==
    [mesh_size |-> Len(mesh),
     sub_domain |-> sub_domain.id,
     input |-> normalize_time(t) \o normalize_weather(weather_data[t])
                   \o current_traffic_volume(sub_domain, t)
                   \o current_receptors(sub_domain),
     labels |-> current_estimates(sub_domain, t, background)]

\* UpdateBackground starting again from the empirical defaults at every update
UpdateBackgroundFromDefaults(background, t) ==
    IF t \in DOMAIN background_pollution
    THEN [p \in DOMAIN background \cup DOMAIN background_pollution[t] |->
             IF p \in DOMAIN background_pollution[t]
             THEN background_pollution[t][p]
             ELSE get_empirical_background_pollution[p]]
    ELSE background

\* lines 180-183: the running mapping after the update step at timestamp t
UpdateBackground(background, t) ==
    IF t \in DOMAIN background_pollution
    THEN [p \in DOMAIN background \cup DOMAIN background_pollution[t] |->
             IF p \in DOMAIN background_pollution[t]
             THEN background_pollution[t][p]
             ELSE background[p]]
    ELSE background

\* FlushNeeded with the buffer flushed only once it exceeds the threshold
FlushNeededAboveThreshold(entries) == ~(Len(entries) <= max_collection_size)

\* line 236, negated: the buffer is flushed
FlushNeeded(entries) == ~(Len(entries) < max_collection_size)

\* InTimeline with date_end excluded
InTimelineExclusive(date) == date < date_end

\* line 168
InTimeline(date) == date <= date_end

----------------------------------------------------------------------------
(* pre_process as a state machine *)

Init ==
    /\ date_start \in Hours
    /\ date_end \in date_start..MaxHour
    /\ mesh \in Meshes
    /\ weather_data \in {WeatherSeries(S) : S \in SUBSET Hours}
    /\ background_pollution \in {BackgroundSeries(S) : S \in SUBSET Hours}
    /\ traffic_volumes \in {TrafficSeries(S) : S \in SUBSET Hours}
    /\ caline_estimates \in {CalineSeries(S) : S \in SUBSET Hours}
    /\ max_collection_size \in 1..MaxThreshold
    /\ pc = "start"
    /\ date_current = date_start
    /\ sub_domain_pos = 1
    /\ current_background_pollution = get_empirical_background_pollution
    /\ collection_of_pre_processed_entries = <<>>
    /\ inserted = <<>>
    /\ assembled = <<>>

\* lines 138-140: np.mean(weather_values, 1) of an empty weather series raises
StartRaises ==
    /\ pc = "start"
    /\ DOMAIN weather_data = {}
    /\ pc' = "raised"
    /\ UNCHANGED <<inputs, date_current, sub_domain_pos, current_background_pollution,
                   collection_of_pre_processed_entries, inserted, assembled>>

\* lines 134-166: statistics, default background, receptor assignment, empty buffer
Start ==
    /\ pc = "start"
    /\ DOMAIN weather_data # {}
    /\ pc' = "while"
    /\ date_current' = date_start
    /\ current_background_pollution' = get_empirical_background_pollution
    /\ collection_of_pre_processed_entries' = <<>>
    /\ UNCHANGED <<inputs, sub_domain_pos, inserted, assembled>>

\* lines 171-173
SkipNoWeather ==
    /\ pc = "while"
    /\ InTimeline(date_current)
    /\ date_current \notin DOMAIN weather_data
    /\ date_current' = date_current + time_step
    /\ UNCHANGED <<inputs, pc, sub_domain_pos, current_background_pollution,
                   collection_of_pre_processed_entries, inserted, assembled>>

\* lines 176-178
SkipNoTraffic ==
    /\ pc = "while"
    /\ InTimeline(date_current)
    /\ date_current \in DOMAIN weather_data
    /\ date_current \notin DOMAIN traffic_volumes
    /\ date_current' = date_current + time_step
    /\ UNCHANGED <<inputs, pc, sub_domain_pos, current_background_pollution,
                   collection_of_pre_processed_entries, inserted, assembled>>

\* lines 180-186: the update step, then the for loop over mesh.items() starts
BeginTimestamp ==
    /\ pc = "while"
    /\ InTimeline(date_current)
    /\ date_current \in DOMAIN weather_data
    /\ date_current \in DOMAIN traffic_volumes
    /\ current_background_pollution' =
           UpdateBackground(current_background_pollution, date_current)
    /\ sub_domain_pos' = 1
    /\ pc' = "for"
    /\ UNCHANGED <<inputs, date_current, collection_of_pre_processed_entries,
                   inserted, assembled>>

\* lines 187-188
SkipNoCaline ==
    /\ pc = "for"
    /\ sub_domain_pos <= Len(mesh)
    /\ date_current \notin DOMAIN caline_estimates
    /\ sub_domain_pos' = sub_domain_pos + 1
    /\ UNCHANGED <<inputs, pc, date_current, current_background_pollution,
                   collection_of_pre_processed_entries, inserted, assembled>>

\* lines 190-240: one record is assembled and buffered; a full buffer is flushed
AssembleRecord ==
    /\ pc = "for"
    /\ sub_domain_pos <= Len(mesh)
    /\ date_current \in DOMAIN caline_estimates
    /\ LET data == Data(mesh[sub_domain_pos], date_current, current_background_pollution)
           entries == Append(collection_of_pre_processed_entries, data)
       IN  /\ IF FlushNeeded(entries)
              THEN /\ inserted' = Append(inserted, entries)
                   /\ collection_of_pre_processed_entries' = <<>>
              ELSE /\ inserted' = inserted
                   /\ collection_of_pre_processed_entries' = entries
           /\ assembled' = Append(assembled,
                  [t |-> date_current, sub_domain |-> mesh[sub_domain_pos].id,
                   background |-> current_background_pollution, data |-> data])
    /\ sub_domain_pos' = sub_domain_pos + 1
    /\ UNCHANGED <<inputs, pc, date_current, current_background_pollution>>

\* line 242
EndTimestamp ==
    /\ pc = "for"
    /\ sub_domain_pos > Len(mesh)
    /\ date_current' = date_current + time_step
    /\ pc' = "while"
    /\ UNCHANGED <<inputs, sub_domain_pos, current_background_pollution,
                   collection_of_pre_processed_entries, inserted, assembled>>

\* FinalFlush without the insert of the last batch
FinalFlushDropsRemainder ==
    /\ pc = "while"
    /\ ~InTimeline(date_current)
    /\ pc' = "done"
    /\ UNCHANGED <<inputs, date_current, sub_domain_pos, current_background_pollution,
                   collection_of_pre_processed_entries, inserted, assembled>>

\* lines 244-248: the last batch, if not empty
FinalFlush ==
    /\ pc = "while"
    /\ ~InTimeline(date_current)
    /\ inserted' = IF collection_of_pre_processed_entries # <<>>
                   THEN Append(inserted, collection_of_pre_processed_entries)
                   ELSE inserted
    /\ pc' = "done"
    /\ UNCHANGED <<inputs, date_current, sub_domain_pos, current_background_pollution,
                   collection_of_pre_processed_entries, assembled>>

Next ==
    \/ StartRaises
    \/ Start
    \/ SkipNoWeather
    \/ SkipNoTraffic
    \/ BeginTimestamp
    \/ SkipNoCaline
    \/ AssembleRecord
    \/ EndTimestamp
    \/ FinalFlush

Spec == Init /\ [][Next]_vars

----------------------------------------------------------------------------
(* Vocabulary of the properties *)

Records == [i \in 1..Len(assembled) |-> assembled[i].data]

Persisted == Flatten(inserted)

SubDomainOf(id) == CHOOSE sd \in {mesh[i] : i \in 1..Len(mesh)} : sd.id = id

HasAll(t) ==
    /\ t \in DOMAIN weather_data
    /\ t \in DOMAIN traffic_volumes
    /\ t \in DOMAIN caline_estimates

EmittedFor(t, id) == {i \in 1..Len(assembled) : assembled[i].t = t /\ assembled[i].sub_domain = id}

Ceil(n, d) == (n + d - 1) \div d

IsZero(scalar) == scalar[1] = 0 /\ scalar[2] # 0

\* a / sqrt(b) = c / sqrt(d), both finite
ScalarEq(x, y) ==
    /\ x[2] # 0
    /\ y[2] # 0
    /\ Sign(x[1]) = Sign(y[1])
    /\ x[1] * x[1] * y[2] = y[1] * y[1] * x[2]

\* input = 1 time scalar, 4 weather scalars, the link block, 2 scalars per receptor
LinkBlockOf(e) ==
    SubSeq(e.data.input, 6,
           Len(e.data.input) - 2 * Len(receptor_coords(SubDomainOf(e.sub_domain))))

----------------------------------------------------------------------------
(* C1: the batches passed to insert_many, concatenated in call order, are    *)
(* the assembled records in assembly order: while the run is under way the   *)
(* flushed batches followed by the buffer are the records assembled so far,  *)
(* and once the run has completed the flushed batches alone are.  Assembly   *)
(* order is increasing timestamp and, within a timestamp, mesh order.        *)

C1_PersistedInAssemblyOrder ==
    /\ pc = "done" => Persisted = Records
    /\ pc # "done" => Persisted \o collection_of_pre_processed_entries = Records
    /\ \A i, j \in 1..Len(assembled) :
           i < j => \/ assembled[i].t < assembled[j].t
                    \/ /\ assembled[i].t = assembled[j].t
                       /\ \E a, b \in 1..Len(mesh) :
                              /\ a < b
                              /\ mesh[a].id = assembled[i].sub_domain
                              /\ mesh[b].id = assembled[j].sub_domain

C1_Witness ==
    /\ pc = "done"
    /\ Len(inserted) >= 2
    /\ Len(assembled) >= 3
    /\ Len(inserted[Len(inserted)]) < max_collection_size

(* C2: with threshold T and N assembled records insert_many is called        *)
(* ceil(N/T) times, every call but the last with T records, the last with    *)
(* N - T*(ceil(N/T)-1), and never with an empty batch.                       *)

C2_BatchSizes ==
    LET N == Len(assembled)
        T == max_collection_size
        calls == Len(inserted)
    IN  /\ \A i \in 1..calls : Len(inserted[i]) > 0
        /\ pc # "done" => \A i \in 1..calls : Len(inserted[i]) = T
        /\ pc = "done" =>
               /\ calls = Ceil(N, T)
               /\ \A i \in 1..(calls - 1) : Len(inserted[i]) = T
               /\ calls > 0 => Len(inserted[calls]) = N - T * (calls - 1)

C2_Witness ==
    /\ pc = "done"
    /\ max_collection_size = 3
    /\ Len(inserted) = 2
    /\ Len(inserted[1]) = 3
    /\ Len(inserted[2]) = 1

(* C3: a timestamp of the timeline with a weather, a traffic-volume and a    *)
(* caline entry gets exactly one record per sub-domain of the mesh; a        *)
(* timestamp lacking one of the three, or outside the timeline, gets none.   *)

C3_RecordsPerTimestamp ==
    /\ \A i \in 1..Len(assembled) :
           /\ assembled[i].t \in date_start..date_end
           /\ HasAll(assembled[i].t)
    /\ \A t \in Hours, k \in 1..Len(mesh) :
           /\ Cardinality(EmittedFor(t, mesh[k].id)) <= 1
           /\ pc = "done" =>
                  (EmittedFor(t, mesh[k].id) # {}
                       <=> (t \in date_start..date_end /\ HasAll(t)))

C3_Witness ==
    /\ pc = "done"
    /\ \E t \in date_start..date_end :
           /\ HasAll(t)
           /\ \E k \in 1..Len(mesh) :
                  /\ receptor_coords(mesh[k]) = <<>>
                  /\ mesh[k].links = <<>>
                  /\ EmittedFor(t, mesh[k].id) # {}
    /\ \E t \in date_start..date_end :
           /\ t \in DOMAIN weather_data
           /\ t \in DOMAIN traffic_volumes
           /\ t \notin DOMAIN caline_estimates
           /\ \A k \in 1..Len(mesh) : EmittedFor(t, mesh[k].id) = {}

(* C4: the running background mapping changes only in the update step of a   *)
(* timestamp that has a background entry; that step overwrites exactly the   *)
(* pollutants of the entry and keeps every other carried value; records of   *)
(* two timestamps with no applied update in between were built with the      *)
(* same mapping.                                                             *)

UpdateApplied(t) ==
    /\ t \in DOMAIN weather_data
    /\ t \in DOMAIN traffic_volumes
    /\ t \in DOMAIN background_pollution

C4_Step ==
    /\ current_background_pollution' # current_background_pollution =>
           /\ pc = "while"
           /\ pc' = "for"
           /\ date_current \in DOMAIN background_pollution
    /\ (pc = "while" /\ pc' = "for" /\ date_current \in DOMAIN background_pollution) =>
           /\ DOMAIN current_background_pollution' = DOMAIN current_background_pollution
           /\ \A p \in DOMAIN current_background_pollution :
                  current_background_pollution'[p] =
                      IF p \in DOMAIN background_pollution[date_current]
                      THEN background_pollution[date_current][p]
                      ELSE current_background_pollution[p]

C4_SameMapping ==
    \A i, j \in 1..Len(assembled) :
        (/\ assembled[i].t <= assembled[j].t
         /\ \A k \in (assembled[i].t + 1)..assembled[j].t : ~UpdateApplied(k))
            => assembled[i].background = assembled[j].background

\* C4: the mapping changes only by an update step, which overwrites only the
\* entry's pollutants; records with no applied update in between share it
C4_BackgroundFrame == []C4_SameMapping /\ [][C4_Step]_vars

C4_Witness ==
    /\ pc = "for"
    /\ date_current \in DOMAIN background_pollution
    /\ \E p \in DOMAIN current_background_pollution :
           /\ p \notin DOMAIN background_pollution[date_current]
           /\ current_background_pollution[p] # get_empirical_background_pollution[p]
    /\ assembled # <<>>

(* C5: within one run every record's input has the same length and every     *)
(* record's labels have a length that is a multiple of the number of         *)
(* pollutants.                                                               *)

C5_ConstantLengths ==
    \A i, j \in 1..Len(assembled) :
        /\ Len(assembled[i].data.input) = Len(assembled[j].data.input)
        /\ Len(assembled[i].data.labels) % Len(Pollutant) = 0

(* C6: for a sub-domain with k <= 20 links the link block has 100 scalars:   *)
(* the first 5k are the per-link groups in link order (start coordinates,    *)
(* end coordinates, volume scalar), the last (20-k)*5 are zero.              *)

C6_LinkBlock ==
    \A i \in 1..Len(assembled) :
        LET e == assembled[i]
            links == SubDomainOf(e.sub_domain).links
            k == Len(links)
            block == LinkBlockOf(e)
        IN  k <= 20 =>
                /\ Len(block) = 20 * 5
                /\ \A n \in 1..k :
                       /\ SubSeq(block, 5 * n - 4, 5 * n - 3)
                              = normalize_coords(links_in_area[links[n]][1])
                       /\ SubSeq(block, 5 * n - 2, 5 * n - 1)
                              = normalize_coords(links_in_area[links[n]][2])
                       /\ \/ IsZero(block[5 * n])
                          \/ \E l \in DOMAIN traffic_volumes[e.t] :
                                 /\ l = SortedLink(links[n])
                                 /\ block[5 * n] = normalize_traffic(traffic_volumes[e.t][l])
                /\ \A n \in (5 * k + 1)..(20 * 5) : IsZero(block[n])

C6_Witness ==
    /\ \E i \in 1..Len(assembled) :
           /\ Len(SubDomainOf(assembled[i].sub_domain).links) = 2
           /\ ~IsZero(LinkBlockOf(assembled[i])[10])
    /\ \E i \in 1..Len(assembled) : SubDomainOf(assembled[i].sub_domain).links = <<>>

(* C7: the label of receptor coord and pollutant p, in receptor-sorted then  *)
(* enumeration order, is v = caline - background when caline has coord and   *)
(* p at t, else v = 0, persisted as v when v >= -1 and as 0 when v < -1.     *)

C7_Raw(e, coord, p) ==
    IF coord \in DOMAIN caline_estimates[e.t] /\ p \in DOMAIN caline_estimates[e.t][coord]
    THEN caline_estimates[e.t][coord][p] - e.background[p]
    ELSE 0

\* C7: every persisted label is the clamped raw label, and none is below -1
C7_Labels ==
    \A i \in 1..Len(assembled) :
        LET e == assembled[i]
            rc == receptor_coords(SubDomainOf(e.sub_domain))
            n == Len(Pollutant)
        IN  /\ Len(e.data.labels) = Len(rc) * n
            /\ \A r \in 1..Len(rc), j \in 1..n :
                   LET v == C7_Raw(e, rc[r], Pollutant[j])
                       label == e.data.labels[(r - 1) * n + j]
                   IN  /\ v >= -1 => label = v
                       /\ v < -1 => label = 0
                       /\ label >= -1

C7_Witness ==
    \E i \in 1..Len(assembled) :
        LET e == assembled[i]
            rc == receptor_coords(SubDomainOf(e.sub_domain))
        IN  /\ Len(rc) >= 2
            /\ \E r \in 1..Len(rc), j \in 1..Len(Pollutant) : C7_Raw(e, rc[r], Pollutant[j]) < -1
            /\ \E r \in 1..Len(rc), j \in 1..Len(Pollutant) : C7_Raw(e, rc[r], Pollutant[j]) = -1
            /\ \E r \in 1..Len(rc), j \in 1..Len(Pollutant) : C7_Raw(e, rc[r], Pollutant[j]) > 0
            /\ \E r \in 1..Len(rc) : rc[r] \notin DOMAIN caline_estimates[e.t]

(* C8: when a normalization statistic has zero standard deviation, no        *)
(* record is assembled or passed to insert_many.                             *)

ZeroStd ==
    \/ Radicand(time_stats) = 0
    \/ \E d \in 1..4 : Radicand(weather_stats[d]) = 0
    \/ Radicand(volumes_stats) = 0
    \/ \E d \in 1..2 : Radicand(coord_stats[d]) = 0

\* C8: a zero standard deviation leaves no record assembled or inserted
C8_ZeroStdIsFatal == ZeroStd => (assembled = <<>> /\ inserted = <<>>)

(* C9: a link of the sub-domain absent from traffic_volumes[t] gets the      *)
(* volume scalar of a present link with volume 0, normalize_traffic(0).      *)

C9_AbsentLinkIsVolumeZero ==
    \A i \in 1..Len(assembled) :
        LET e == assembled[i]
            links == SubDomainOf(e.sub_domain).links
        IN  \A n \in 1..Len(links) :
                (/\ SortedLink(links[n]) \notin DOMAIN traffic_volumes[e.t]
                 /\ Radicand(volumes_stats) # 0)
                    => ScalarEq(LinkBlockOf(e)[5 * n], normalize_traffic(0))

(* C10: the background subtracted for pollutant p in a record of timestamp t *)
(* is p's value in the latest background entry of the timeline at or before  *)
(* t that contains p, the empirical default when there is none.              *)

LatestBackground(p, t) ==
    LET with == {k \in date_start..t :
                    k \in DOMAIN background_pollution /\ p \in DOMAIN background_pollution[k]}
    IN  IF with = {} THEN get_empirical_background_pollution[p]
        ELSE background_pollution[CHOOSE k \in with : \A m \in with : m <= k][p]

\* C10: every record subtracts the latest measurement at or before its timestamp
C10_LatestMeasurementUsed ==
    \A i \in 1..Len(assembled) :
        \A j \in 1..Len(Pollutant) :
            assembled[i].background[Pollutant[j]]
                = LatestBackground(Pollutant[j], assembled[i].t)

====
